---- MODULE Spec2Model ----
(***************************************************************************)
(* A model of ak::fdbuf (src/fdstream.cpp): a std::streambuf over a file   *)
(* descriptor with a forward-seek optimisation that discards bytes with    *)
(* lseek(2) or splice(2) instead of reading them.                          *)
(*                                                                         *)
(* One fdbuf, used by one thread.  The public entry points (xsgetn,        *)
(* seekoff, underflow, setbuf, the destructor) are called when pc = "idle";*)
(* every system call the code issues is one step, so that partial          *)
(* transfers, EINTR and the splice loops are visible.                      *)
(*                                                                         *)
(* The source is FileLen bytes long, byte i (1-based) has value i, and its *)
(* writer has closed: a read or splice at the end returns 0.               *)
(*                                                                         *)
(* Spec is a stream opened from a path and its use; SpecFd adds the        *)
(* construction of the descriptor handle by either constructor, on every   *)
(* file type; SpecThreads is splice_to_null run by two threads.            *)
(***************************************************************************)
EXTENDS Integers, Sequences, FiniteSets, TLC

\* ------------------------------------------------------------- bounds
FileLen == 3
\* default_bufsize is 1<<13 in the source (fdstream.cpp:14); the model scales
\* it down so that refills happen within FileLen bytes.
DefaultBufsize == 2
\* largest capacity a caller passes to setbuf
MaxCap == 1
\* largest count passed to xsgetn / largest offset passed to seekoff
MaxReq == 2
\* how often one system call is interrupted (EINTR) in a row
MaxEintr == 1

\* the guards of seekoff keep the logical position within MinPos..MaxPos
MinPos == 0 - 1

MaxPos == FileLen + 1

\* size_t / off_t: the model keeps the wrap-around of the unsigned conversion
\* with a 30-bit word (TLC's integers are 32 bits wide; the source's are 64).
SizeModulus == 2^30

ToSizeT(x) == x % SizeModulus

ToOffT(u) == IF u >= SizeModulus \div 2 THEN u - SizeModulus ELSE u

Min(a, b) == IF a <= b THEN a ELSE b

\* ------------------------------------------------------------- file types
\* <sys/stat.h> file-type codes of st_mode (octal 0010000, 0020000, 0100000,
\* 0140000)
S_IFIFO == 4096

S_IFCHR == 8192

S_IFREG == 32768

S_IFSOCK == 49152

\* the other file-type codes (octal 0040000, 0060000, 0120000)
S_IFDIR == 16384

S_IFBLK == 24576

S_IFLNK == 40960

\* the file types a stream is used on
FileTypes == {"REG", "FIFO", "CHR", "SOCK"}

\* every file type fstat reports
AllFileTypes == FileTypes \cup {"DIR", "BLK", "LNK"}

StMode(ft) ==
  CASE ft = "REG" -> S_IFREG
    [] ft = "FIFO" -> S_IFIFO
    [] ft = "CHR" -> S_IFCHR
    [] ft = "SOCK" -> S_IFSOCK
    [] ft = "DIR" -> S_IFDIR
    [] ft = "BLK" -> S_IFBLK
    [] ft = "LNK" -> S_IFLNK

\* (mode & bit) != 0 for a one-bit mask
BitSet(mode, bit) == (mode \div bit) % 2 = 1

\* Fd::Fd(int): the classification of the descriptor
FdType(mode) ==
  IF BitSet(mode, S_IFREG) THEN "reg"
  ELSE IF BitSet(mode, S_IFIFO) THEN "fifo"
  ELSE "other"

\* Fd::Fd(const std::string&, int): the classification of the descriptor
FdTypeOfPath(mode) ==
  IF BitSet(mode, S_IFREG) THEN "reg"
  ELSE IF BitSet(mode, S_IFIFO) THEN "fifo"
  ELSE "other"

\* lseek(2) works on this file type
Seekable(ft) == ft \in {"REG", "BLK", "DIR"}

\* read(2) and splice(2) deliver the bytes of this file type (a directory
\* fails with EISDIR / EINVAL, a descriptor on a symbolic link with EBADF)
Readable(ft) == ft \notin {"DIR", "LNK"}

\* ------------------------------------------------------------- memory
Byte == 0..FileLen

\* what an indeterminate read (freed memory) may also yield
Poison == 0

\* the byte of the source at 0-based offset o
Content(o) == o + 1

\* the bytes of the source at offsets [from, from + k), cut at the end
FileSlice(from, k) ==
  [i \in 1..(IF from >= FileLen THEN 0 ELSE Min(k, FileLen - from)) |-> Content(from + i - 1)]

\* "def" is the buffer the fdbuf allocates, "ext" a caller's buffer
BufIds == {"def", "ext"}

BufSize(b) == IF b = "def" THEN DefaultBufsize ELSE MaxCap

Ptr(b, o) == [b |-> b, o |-> o]

VARIABLES
  ftype,      \* the file type of the descriptor
  type,       \* Fd::type
  fdOwned,    \* Fd::owned
  fdOpened,   \* ::open returned the descriptor to this handle
  fdClosed,   \* how often the handle called ::close on the descriptor
  fdOff,      \* the descriptor's offset: bytes of the source consumed
  buf,        \* fdbuf::buf
  capacity,   \* fdbuf::capacity
  owned,      \* fdbuf::owned
  eback,      \* the get area of std::streambuf: eback(), gptr(), egptr()
  gptr,
  egptr,
  mem,        \* the contents of the buffers
  released,   \* how often each buffer was delete[]d
  dev_null,   \* the thread_local dev_null is constructed
  p,          \* the thread_local Pipe: [open, held]
  pc,         \* where the thread is
  loc,        \* the locals of the running call: [fn, n, rem, rd]
  retries,    \* EINTRs of the system call being retried
  out,        \* the bytes xsgetn copied to its destination
  outFrom,    \* the buffers xsgetn copied them from
  ret,        \* the result of the last call: [st, val, errno]
  call,       \* the call running or last run, with the state it started in
  prev,       \* the forward skip completed right before it, if any
  logical,    \* bytes delivered by xsgetn plus bytes skipped by seekoff
  thr,        \* two threads that skip on streams of their own: per thread
              \* [pc, n, rd, off, sunk, st, drained]
  tls         \* the thread_local objects of splice_to_null, per instance:
              \* [dev_null, open, held, users]

streamVars == <<ftype, type, fdOwned, fdOpened, fdClosed, fdOff, buf, capacity, owned, eback, gptr, egptr, mem,
          released, dev_null, p, pc, loc, retries, out, outFrom, ret, call,
          prev, logical>>

thrVars == <<thr, tls>>

vars == <<streamVars, thrVars>>

fdVars == <<ftype, type, fdOwned, fdOpened, fdClosed>>

bufVars == <<buf, capacity, owned, released>>

winVars == <<eback, gptr, egptr>>

tlsVars == <<dev_null, p>>

\* bytes the source still holds past the descriptor's offset
Avail == IF fdOff >= FileLen THEN 0 ELSE FileLen - fdOff

\* egptr() - gptr()
Buffered == egptr.o - gptr.o

\* the offset in the source of the byte the next read delivers
NextPos == fdOff - Buffered

\* the value of splice's local read before the first ::splice of a call
NoTransfer == 0 - 1

NoLoc == [fn |-> "none", n |-> 0, rem |-> 0, rd |-> 0]

NoCall == [op |-> "none", a |-> 0, opt |-> FALSE, q0 |-> 0, b0 |-> 0]

NoSkip == [a |-> 0 - 1, q0 |-> 0]

Threads == {"t1", "t2"}

\* no thread has called skip, no thread_local is constructed
InitThreads ==
  /\ thr = [t \in Threads |->
             [pc |-> "idle", n |-> 0, rd |-> 0, off |-> 0, sunk |-> 0,
              st |-> "ok", drained |-> {}]]
  /\ tls = [i \in Threads |->
             [dev_null |-> FALSE, open |-> FALSE, held |-> <<>>, users |-> {}]]

\* what ret holds before the first call returns
NoRet == [st |-> "ok", val |-> 0, errno |-> "none"]

\* the members and bookkeeping a new fdbuf starts with, whatever its handle
InitStream ==
  /\ fdOff = 0
  /\ buf = "def"
  /\ capacity = DefaultBufsize
  /\ owned = TRUE
  /\ eback = Ptr("def", 0)
  /\ gptr = Ptr("def", 0)
  /\ egptr = Ptr("def", 0)
  /\ mem = [b \in BufIds |-> [i \in 1..BufSize(b) |-> 0]]
  /\ released = [b \in BufIds |-> 0]
  /\ dev_null = FALSE
  /\ p = [open |-> FALSE, held |-> 0]
  /\ loc = NoLoc
  /\ retries = 0
  /\ out = <<>>
  /\ outFrom = {}
  /\ ret = NoRet
  /\ call = NoCall
  /\ prev = NoSkip
  /\ logical = 0
  /\ InitThreads

\* a stream fdbuf(const std::string&) has constructed on a file of one of
\* FileTypes
Init ==
  /\ ftype \in FileTypes
  /\ type = FdTypeOfPath(StMode(ftype))
  /\ fdOwned = TRUE
  /\ fdOpened = TRUE
  /\ fdClosed = 0
  /\ pc = "idle"
  /\ InitStream

\* ------------------------------------------------------------- bookkeeping
\* the last call was a forward skip (a relative seek of the get area by
\* call.a >= 0) that returned without an error
SkippedOk == call.op = "seekoff" /\ call.opt /\ call.a >= 0 /\ ret.st = "ok"

\* a call starts: remember the state it starts in, and the forward skip that
\* came right before it
Enter(op, a, opt) ==
  /\ call' = [op |-> op, a |-> a, opt |-> opt, q0 |-> NextPos,
              b0 |-> IF op \in {"seekoff", "underflow"} THEN Buffered ELSE 0]
  /\ prev' = IF SkippedOk THEN [a |-> call.a, q0 |-> call.q0] ELSE NoSkip

\* the call op returns val (st = "ok") or throws (st names the error)
Return(op, st, val) ==
  /\ ret' = [st |-> st, val |-> val, errno |-> "none"]
  /\ pc' = "idle"
  /\ loc' = NoLoc
  /\ retries' = 0

\* the errno a failing system call leaves: EINTR, or any other (EIO here)
Errnos == {"EINTR", "EIO"}

\* the call op throws the error st, built from strerror(errno) with errno = e
Throw(op, st, e) ==
  /\ ret' = [st |-> st, val |-> 0, errno |-> e]
  /\ pc' = "idle"
  /\ loc' = NoLoc
  /\ retries' = 0

\* ------------------------------------------------------------- system calls
\* ::read(fd, buf, count): the counts it may return (a short read is allowed;
\* 0 at the end of the source or for count = 0)
ReadCounts(count) ==
  IF count = 0 \/ Avail = 0 THEN {0} ELSE 1..Min(count, Avail)

\* ::splice(fd, NULL, out, NULL, len, 0) from the source: the counts it may
\* return
SpliceCounts(len) ==
  IF len = 0 \/ Avail = 0 THEN {0} ELSE 1..Min(len, Avail)

\* ::splice(p.read, NULL, dev_null, NULL, len, 0): the counts it may return
\* with held bytes in the pipe
DrainCounts(held, len) ==
  IF len = 0 \/ held = 0 THEN {0} ELSE 1..Min(len, held)

\* the values a read of cell o of buffer b may yield in memory M: the stored
\* byte, or anything once the buffer is freed
CellValues(M, b, o) ==
  IF released[b] > 0 THEN {M[b][o + 1], Poison} ELSE {M[b][o + 1]}

\* std::copy(g, g + amt, s): the sequences it may copy
Copies(M, g, amt) ==
  {s \in [1..amt -> Byte] :
     \A i \in 1..amt : s[i] \in CellValues(M, g.b, g.o + i - 1)}

\* memory after ::read stored m bytes of the source at the start of buf.
\* underflow then moves the get area to these m cells; no code reads a cell
\* outside the get area, so the model keeps the contents of no other cell.
Stored(m) ==
  [b \in BufIds |->
     [i \in 1..BufSize(b) |->
        IF b = buf /\ i <= m THEN Content(fdOff + i - 1) ELSE 0]]

\* ------------------------------------------------------------- xsgetn
\* xsgetn returns count
XsgetnReturn(count, o, fr, eb, g, e) ==
  /\ eback' = eb /\ gptr' = g /\ egptr' = e
  /\ out' = o /\ outFrom' = fr
  /\ logical' = logical + count
  /\ Return("xsgetn", "ok", count)

\* the while loop of xsgetn, entered with rem bytes to go, out = o and the
\* get area (eb, g, e) over memory M; it runs until underflow has to read
XsgetnLoop(n, rem, o, fr, eb, g, e, M) ==
  IF rem = 0 THEN XsgetnReturn(n, o, fr, eb, g, e)
  ELSE IF g.o = e.o THEN
    /\ eback' = eb /\ gptr' = g /\ egptr' = e
    /\ out' = o /\ outFrom' = fr
    /\ pc' = "read"
    /\ loc' = [fn |-> "xsgetn", n |-> n, rem |-> rem, rd |-> 0]
    /\ retries' = 0
    /\ UNCHANGED <<ret, logical>>
  ELSE
    LET avail == e.o - g.o
        amt == Min(rem, avail)
        g2 == Ptr(g.b, g.o + amt)
    IN \E s \in Copies(M, g, amt) :
         IF rem - amt = 0
         THEN XsgetnReturn(n, o \o s, fr \cup {g.b}, eb, g2, e)
         ELSE /\ eback' = eb /\ gptr' = g2 /\ egptr' = e
              /\ out' = o \o s /\ outFrom' = fr \cup {g.b}
              /\ pc' = "read"
              /\ loc' = [fn |-> "xsgetn", n |-> n, rem |-> rem - amt, rd |-> 0]
              /\ retries' = 0
              /\ UNCHANGED <<ret, logical>>

\* std::streamsize xsgetn(char* s, std::streamsize n)
Xsgetn(n) ==
  /\ pc = "idle"
  /\ Enter("xsgetn", n, FALSE)
  /\ XsgetnLoop(n, n, <<>>, {}, eback, gptr, egptr, mem)
  /\ UNCHANGED <<fdVars, fdOff, bufVars, mem, tlsVars>>
  /\ UNCHANGED thrVars

\* ------------------------------------------------------------- underflow
\* the value underflow returns for the get area (g, e) over memory M
UnderflowValues(M, g, e) ==
  IF g.o = e.o THEN {-1} ELSE CellValues(M, g.b, g.o)

\* an underflow that reads whatever the get area holds
UnderflowAlwaysReads == TRUE

\* underflow: if (this->gptr() == this->egptr())
UnderflowNeedsRead == gptr = egptr

\* int underflow()
Underflow ==
  /\ pc = "idle"
  /\ Enter("underflow", 0, FALSE)
  /\ out' = <<>> /\ outFrom' = {}
  /\ IF UnderflowNeedsRead
     THEN /\ pc' = "read"
          /\ loc' = [fn |-> "underflow", n |-> 0, rem |-> 0, rd |-> 0]
          /\ retries' = 0
          /\ UNCHANGED ret
     ELSE \E v \in UnderflowValues(mem, gptr, egptr) : Return("underflow", "ok", v)
  /\ UNCHANGED <<fdVars, fdOff, bufVars, winVars, mem, tlsVars, logical>>
  /\ UNCHANGED thrVars

\* ------------------------------------------------------------- read
\* size_t read(Fd& fd, void* buf, size_t count), called by underflow with
\* (fd, buf, capacity): ::read returned m
ReadOk(m) ==
  LET M == Stored(m)
      b0 == Ptr(buf, 0)
      bn == Ptr(buf, m)
  IN /\ mem' = M
     /\ fdOff' = fdOff + m
     /\ IF loc.fn = "underflow"
        THEN /\ eback' = b0 /\ gptr' = b0 /\ egptr' = bn
             /\ \E v \in UnderflowValues(M, b0, bn) : Return("underflow", "ok", v)
             /\ UNCHANGED <<out, outFrom, logical>>
        ELSE IF m = 0
        THEN XsgetnReturn(loc.n - loc.rem, out, outFrom, b0, b0, bn)
        ELSE XsgetnLoop(loc.n, loc.rem, out, outFrom, b0, b0, bn, M)

\* ::read returned -1 with errno EINTR: the loop calls it again
ReadEintr ==
  /\ retries < MaxEintr
  /\ retries' = retries + 1
  /\ UNCHANGED <<fdOff, winVars, mem, pc, loc, out, outFrom, ret, logical>>

\* ::read returned -1 with another errno: runtime_error("read error: ...")
ReadFail ==
  /\ Throw(loc.fn, "ReadError", "EIO")
  /\ UNCHANGED <<fdOff, winVars, mem, out, outFrom, logical>>

ReadStep ==
  /\ pc = "read"
  /\ \/ Readable(ftype) /\ \E m \in ReadCounts(capacity) : ReadOk(m)
     \/ ReadEintr
     \/ ReadFail
  /\ UNCHANGED <<fdVars, bufVars, tlsVars, call, prev>>
  /\ UNCHANGED thrVars

\* ------------------------------------------------------------- seekoff
\* seekoff returns this->gptr() - this->eback() after skip returned
SeekoffValue(g, eb) == g.o - eb.o

SeekoffReturn ==
  /\ Return("seekoff", "ok", SeekoffValue(gptr, eback))
  /\ logical' = logical + call.a

\* skip (or a thread_local it constructs) throws
SeekoffThrow(st, e) ==
  /\ Throw("seekoff", st, e)
  /\ UNCHANGED logical

\* a ::splice returned -1: both splice functions throw, whatever errno is
SpliceFailed == \E e \in Errnos : SeekoffThrow("TransferError", e)

\* the count seekoff passes to skip(Fd&, size_t): off - buffered
SkipCount(off, buffered) == ToSizeT(off - buffered)

\* the offset ::lseek(fd, n, SEEK_CUR) moves the descriptor to (n: off_t)
LseekTarget(n) == fdOff + ToOffT(n)

\* void lseek(Fd& fd, off_t offset, int whence): ::lseek returned o != -1
LseekOk(n) == Seekable(ftype) /\ LseekTarget(n) >= 0

\* the seek modes the optimisation is not taken for
DefaultSeek(way, which) == which = "out" \/ way # "cur"

\* thread_local Fd dev_null{"/dev/null", O_WRONLY}: already constructed, or
\* constructed now, which may throw
DevNullOutcomes == IF dev_null THEN {TRUE} ELSE BOOLEAN

\* thread_local Pipe p: already constructed, or constructed now
PipeOutcomes == IF p.open THEN {TRUE} ELSE BOOLEAN

\* std::streampos seekoff(off, way, which)
Seekoff(off, way, which) ==
  /\ pc = "idle"
  /\ logical + off >= MinPos /\ logical + off <= MaxPos
  /\ out' = <<>> /\ outFrom' = {}
  /\ IF DefaultSeek(way, which)
     THEN \* std::streambuf::seekoff: pos_type(off_type(-1)), no effect
          /\ Enter("seekoff", off, FALSE)
          /\ Return("seekoff", "ok", -1)
          /\ UNCHANGED <<fdOff, winVars, tlsVars, logical>>
     ELSE LET end == egptr
              buffered == end.o - gptr.o
              n == SkipCount(off, buffered)
          IN /\ Enter("seekoff", off, TRUE)
             /\ eback' = eback /\ gptr' = end /\ egptr' = end
             /\ CASE type = "reg" ->
                       /\ IF LseekOk(n)
                          THEN /\ fdOff' = LseekTarget(n)
                               /\ Return("seekoff", "ok", SeekoffValue(end, eback))
                               /\ logical' = logical + off
                          ELSE /\ SeekoffThrow("SeekError", "EIO")
                               /\ UNCHANGED fdOff
                       /\ UNCHANGED tlsVars
                  [] type = "fifo" ->
                       /\ \E dn \in DevNullOutcomes :
                            /\ dev_null' = dn
                            /\ IF dn
                               THEN IF n > 0
                                    THEN /\ pc' = "splice_pipe_to_null"
                                         /\ loc' = [fn |-> "seekoff", n |-> n, rem |-> 0, rd |-> NoTransfer]
                                         /\ retries' = 0
                                         /\ UNCHANGED <<ret, logical>>
                                    ELSE /\ Return("seekoff", "ok", SeekoffValue(end, eback))
                                         /\ logical' = logical + off
                               ELSE SeekoffThrow("OpenError", "EIO")
                       /\ UNCHANGED <<fdOff, p>>
                  [] type = "other" ->
                       /\ \E dn \in DevNullOutcomes :
                            /\ dev_null' = dn
                            /\ IF ~dn
                               THEN SeekoffThrow("OpenError", "EIO") /\ UNCHANGED p
                               ELSE \E po \in PipeOutcomes :
                                      /\ p' = [p EXCEPT !.open = po]
                                      /\ IF po
                                         THEN IF n > 0
                                              THEN /\ pc' = "splice_to_null"
                                                   /\ loc' = [fn |-> "seekoff", n |-> n, rem |-> 0, rd |-> NoTransfer]
                                                   /\ retries' = 0
                                                   /\ UNCHANGED <<ret, logical>>
                                              ELSE /\ Return("seekoff", "ok", SeekoffValue(end, eback))
                                                   /\ logical' = logical + off
                                         ELSE SeekoffThrow("OpenError", "EIO")
                       /\ UNCHANGED fdOff
  /\ UNCHANGED <<fdVars, bufVars, mem>>
  /\ UNCHANGED thrVars

\* ------------------------------------------------------------- splice_pipe_to_null
\* void splice_pipe_to_null(Fd& fd, size_t n): one pass of while (n > 0)
\* whose ::splice returned rd != -1: n -= read; continue
SplicePipeMoved(rd) ==
  /\ fdOff' = fdOff + rd
  /\ IF loc.n - rd > 0
     THEN /\ loc' = [loc EXCEPT !.n = loc.n - rd, !.rd = rd]
          /\ UNCHANGED <<pc, ret, retries, logical>>
     ELSE SeekoffReturn

SplicePipeStep ==
  /\ pc = "splice_pipe_to_null"
  /\ \/ Readable(ftype) /\ \E rd \in SpliceCounts(loc.n) : SplicePipeMoved(rd)
     \/ SpliceFailed /\ UNCHANGED fdOff
  /\ UNCHANGED <<fdVars, bufVars, winVars, mem, tlsVars, out, outFrom, call, prev>>
  /\ UNCHANGED thrVars

\* ------------------------------------------------------------- splice_to_null
\* void splice_to_null(Fd& fd, size_t n): the first ::splice of a pass of
\* while (n > 0), from the descriptor into p.write
SpliceToNullStep1 ==
  /\ pc = "splice_to_null"
  /\ \/ Readable(ftype) /\ \E rd \in SpliceCounts(loc.n) :
          IF rd > 0
          THEN /\ fdOff' = fdOff + rd
               /\ p' = [p EXCEPT !.held = p.held + rd]
               /\ pc' = "splice_to_null_2"
               /\ loc' = [loc EXCEPT !.rd = rd]
               /\ UNCHANGED <<ret, retries, logical>>
          ELSE /\ SeekoffThrow("PrematureEndError", "none")
               /\ UNCHANGED <<fdOff, p>>
     \/ SpliceFailed /\ UNCHANGED <<fdOff, p>>
  /\ UNCHANGED <<fdVars, bufVars, winVars, mem, dev_null, out, outFrom, call, prev>>
  /\ UNCHANGED thrVars

\* what the loop does after written != -1: n -= read; break
AfterWritten == "break"

\* the second ::splice of the pass, from p.read into dev_null
SpliceToNullStep2 ==
  /\ pc = "splice_to_null_2"
  /\ \/ \E written \in DrainCounts(p.held, loc.rd) :
          /\ p' = [p EXCEPT !.held = p.held - written]
          /\ IF AfterWritten = "break" \/ loc.n - loc.rd = 0
             THEN SeekoffReturn
             ELSE /\ pc' = "splice_to_null"
                  /\ loc' = [loc EXCEPT !.n = loc.n - loc.rd]
                  /\ UNCHANGED <<ret, retries, logical>>
     \/ SpliceFailed /\ UNCHANGED p
  /\ UNCHANGED <<fdVars, fdOff, bufVars, winVars, mem, dev_null, out, outFrom, call, prev>>
  /\ UNCHANGED thrVars

\* ------------------------------------------------------------- setbuf
\* setbuf: if (this->owned) delete[] buf
SetbufReleased ==
  IF owned THEN [released EXCEPT ![buf] = @ + 1] ELSE released

\* a setbuf that leaves owned as it is
SetbufOwnedKept == owned

\* setbuf: this->owned = false
SetbufOwned == FALSE

\* setbuf leaves the get area as it is (it does not call setg)
SetbufWindow == <<eback, gptr, egptr>>

\* std::streambuf* setbuf(char* s, std::streamsize n)
Setbuf(s, n) ==
  /\ pc = "idle"
  /\ Enter("setbuf", n, FALSE)
  /\ released' = SetbufReleased
  /\ owned' = SetbufOwned
  /\ buf' = s
  /\ capacity' = n
  /\ eback' = SetbufWindow[1] /\ gptr' = SetbufWindow[2] /\ egptr' = SetbufWindow[3]
  /\ out' = <<>> /\ outFrom' = {}
  /\ Return("setbuf", "ok", 0)
  /\ UNCHANGED <<fdVars, fdOff, mem, tlsVars, logical>>
  /\ UNCHANGED thrVars

\* ------------------------------------------------------------- ~fdbuf
\* ~fdbuf: if (this->owned) delete[] this->buf
DtorReleased ==
  IF owned THEN [released EXCEPT ![buf] = @ + 1] ELSE released

\* a ~Fd that closes the descriptor of a borrowed handle too
DtorClosedAlways == fdClosed + 1

\* ~Fd: if (this->owned) ::close(fd)
DtorClosed == IF fdOwned THEN fdClosed + 1 ELSE fdClosed

\* ~fdbuf, then the destructor of its member fd
Destroy ==
  /\ pc = "idle"
  /\ Enter("~fdbuf", 0, FALSE)
  /\ released' = DtorReleased
  /\ fdClosed' = DtorClosed
  /\ pc' = "destroyed"
  /\ ret' = NoRet
  /\ out' = <<>> /\ outFrom' = {}
  /\ UNCHANGED <<ftype, type, fdOwned, fdOpened, fdOff, buf, capacity, owned,
                 winVars, mem, tlsVars, loc, retries, logical>>
  /\ UNCHANGED thrVars

\* the (way, which) pairs seekoff is called with: every seekdir and every
\* openmode occurs
SeekModes == {<<"cur", "in">>, <<"cur", "inout">>, <<"cur", "out">>,
              <<"beg", "in">>, <<"end", "in">>}

Next == \/ \E n \in 0..MaxReq : Xsgetn(n)
        \/ Underflow
        \/ ReadStep
        \/ \E off \in -1..MaxReq, mode \in SeekModes :
             Seekoff(off, mode[1], mode[2])
        \/ SplicePipeStep
        \/ SpliceToNullStep1
        \/ SpliceToNullStep2
        \/ \E n \in 0..MaxCap : Setbuf("ext", n)
        \/ Destroy

Spec == Init /\ [][Next]_vars

\* ------------------------------------------------------------- the handle
\* The life of the descriptor handle: a stream is constructed from a path or
\* from a descriptor on a file of any type, used, and destroyed.
InitFd ==
  /\ ftype \in AllFileTypes
  /\ type = "none"
  /\ fdOwned = FALSE
  /\ fdOpened = FALSE
  /\ fdClosed = 0
  /\ pc = "new"
  /\ InitStream

\* fdbuf(const std::string& pth): fd{pth} starts Fd(pth, O_RDONLY), owned{true}
\* (open(2) without O_PATH | O_NOFOLLOW never yields a symbolic link)
CtorPath ==
  /\ pc = "new"
  /\ ftype # "LNK"
  /\ fdOwned' = TRUE
  /\ pc' = "open"
  /\ UNCHANGED <<ftype, type, fdOpened, fdClosed, fdOff, bufVars, winVars, mem,
                 tlsVars, loc, retries, out, outFrom, ret, call, prev, logical>>
  /\ UNCHANGED thrVars

\* fdbuf(int _fd): fd{_fd} starts Fd(_fd), fd{_fd}, owned{false}
CtorFd ==
  /\ pc = "new"
  /\ fdOwned' = FALSE
  /\ pc' = "fstat"
  /\ UNCHANGED <<ftype, type, fdOpened, fdClosed, fdOff, bufVars, winVars, mem,
                 tlsVars, loc, retries, out, outFrom, ret, call, prev, logical>>
  /\ UNCHANGED thrVars

\* while ((this->fd = ::open(pth.c_str(), flags)) == -1): one ::open
OpenStep ==
  /\ pc = "open"
  /\ \/ /\ fdOpened' = TRUE
        /\ pc' = "fstat"
        /\ retries' = 0
        /\ UNCHANGED ret
     \/ /\ retries < MaxEintr
        /\ retries' = retries + 1
        /\ UNCHANGED <<fdOpened, pc, ret>>
     \/ /\ ret' = [st |-> "OpenError", val |-> 0, errno |-> "EIO"]
        /\ pc' = "failed"
        /\ retries' = 0
        /\ UNCHANGED fdOpened
  /\ UNCHANGED <<ftype, type, fdOwned, fdClosed, fdOff, bufVars, winVars, mem,
                 tlsVars, loc, out, outFrom, call, prev, logical>>
  /\ UNCHANGED thrVars

\* the kind the running constructor assigns
CtorType ==
  IF fdOwned THEN FdTypeOfPath(StMode(ftype)) ELSE FdType(StMode(ftype))

\* ::fstat failed: Fd(pth, flags) calls ::close(this->fd), Fd(int) does not
CtorClosed == IF fdOwned THEN fdClosed + 1 ELSE fdClosed

\* ::fstat(this->fd, &s) of either constructor; when it succeeds the body of
\* the fdbuf constructor runs (setg(buf, buf, buf))
FstatStep ==
  /\ pc = "fstat"
  /\ \/ /\ type' = CtorType
        /\ pc' = "idle"
        /\ eback' = Ptr(buf, 0) /\ gptr' = Ptr(buf, 0) /\ egptr' = Ptr(buf, 0)
        /\ UNCHANGED <<fdClosed, ret>>
     \/ /\ fdClosed' = CtorClosed
        /\ ret' = [st |-> "OpenError", val |-> 0, errno |-> "EIO"]
        /\ pc' = "failed"
        /\ UNCHANGED <<type, winVars>>
  /\ UNCHANGED <<ftype, fdOwned, fdOpened, fdOff, bufVars, mem, tlsVars, loc,
                 retries, out, outFrom, call, prev, logical>>
  /\ UNCHANGED thrVars

NextFd == \/ CtorPath
          \/ CtorFd
          \/ OpenStep
          \/ FstatStep
          \/ Underflow
          \/ ReadStep
          \/ \E off \in -1..MaxReq, mode \in SeekModes :
               Seekoff(off, mode[1], mode[2])
          \/ SplicePipeStep
          \/ SpliceToNullStep1
          \/ SpliceToNullStep2
          \/ Destroy

SpecFd == InitFd /\ [][NextFd]_vars

\* ------------------------------------------------------------- properties
\* the last call was op and has returned or thrown
Done(op) == pc = "idle" /\ call.op = op

\* the descriptor's kind is the kind of its file type
WellClassified == ftype # "SOCK"

\* C1: on a Regular descriptor, a forward skip of n followed by xsgetn of k
\* delivers the bytes of the file at [p + n, p + n + k), cut at the end of the
\* file, p being the logical position before the skip (so p + n is the
\* logical position the read starts at).
C1_SkipThenRead ==
  (Done("xsgetn") /\ ret.st = "ok" /\ type = "reg" /\ prev.a >= 0)
    => out = FileSlice(logical - ret.val, call.a)

\* The same, for a stream whose capacity is not 0 and whose logical position
\* was the offset of its next byte before the skip.
SkipThenReadInSync ==
  (Done("xsgetn") /\ ret.st = "ok" /\ type = "reg" /\ prev.a >= 0
     /\ capacity > 0 /\ prev.q0 = logical - ret.val - prev.a)
    => out = FileSlice(prev.q0 + prev.a, call.a)

\* C2: the value a successful forward skip returns is the new absolute
\* position: the bytes delivered plus the bytes skipped since the stream was
\* opened.
C2_ReportsAbsolutePosition ==
  (pc = "idle" /\ SkippedOk) => ret.val = logical

\* C3: when skip(handle, n) returns without an error, exactly n bytes of the
\* source are discarded (n = off - buffered, for off >= buffered): the
\* descriptor has moved from the offset it had to that offset plus n.
C3_SkipAllOrNothing ==
  (Done("seekoff") /\ call.opt /\ ret.st = "ok" /\ call.a >= call.b0)
    => fdOff = (call.q0 + call.b0) + (call.a - call.b0)

\* C4: on a Fifo or Other descriptor whose writer has closed, a skip of more
\* bytes than remain ends in an error, and never keeps looping once the
\* transfer from the source has reported 0 bytes with bytes outstanding.
C4_PrematureEnd ==
  /\ (Done("seekoff") /\ call.opt /\ type \in {"fifo", "other"}
        /\ call.a > FileLen - call.q0)
       => ret.st \in {"PrematureEndError", "TransferError", "OpenError"}
  /\ (pc \in {"splice_pipe_to_null", "splice_to_null", "splice_to_null_2"}
        /\ call.a >= call.b0 /\ loc.n > 0)
       => loc.rd # 0

\* C5: on a Fifo or Other descriptor with r bytes remaining (buffered and
\* unread) and the writer closed, a skip of r succeeds however the kernel
\* splits the transfer, and leaves the stream at end-of-input: nothing
\* buffered, nothing left in the source.
C5_SkipExactRemainder ==
  (Done("seekoff") /\ call.opt /\ type \in {"fifo", "other"}
     /\ call.a = FileLen - call.q0
     /\ ret.st \notin {"TransferError", "OpenError"})
    => (ret.st = "ok" /\ Buffered = 0 /\ fdOff = FileLen)

\* C6: a forward skip of 0 is a no-op on every kind and in every state: the
\* offset of the next byte a read delivers stays what it was, while the call
\* runs and after it, and the call raises no error (a call that fails to open
\* the discard sink is left aside).
C6_SkipZeroIsNoOp ==
  (call.op = "seekoff" /\ call.opt /\ call.a = 0 /\ WellClassified
     /\ ~(pc = "idle" /\ ret.st = "OpenError"))
    => /\ NextPos = call.q0
       /\ pc = "idle" => ret.st = "ok"

\* C7: skips add up: after a forward skip of a and then one of b, a + b
\* within the remaining length, the next byte a read delivers is the one at
\* the offset a single skip of a + b leads to, a + b past the offset before
\* the first skip.
C7_SkipsAdditive ==
  (pc = "idle" /\ SkippedOk /\ prev.a >= 0
     /\ prev.a + call.a <= FileLen - prev.q0)
    => NextPos = prev.q0 + (prev.a + call.a)

\* C8: right after setbuf(s, n) the get area is empty at the start of s, and
\* the bytes a later xsgetn delivers are copied from the installed buffer
\* only.
C8_SetbufResetsWindow ==
  /\ Done("setbuf") => (eback = Ptr(buf, 0) /\ gptr = Ptr(buf, 0) /\ egptr = Ptr(buf, 0))
  /\ Done("xsgetn") => outFrom \subseteq {buf}

\* C9: the buffer the stream allocated is released exactly once over the
\* life of the stream (by the first setbuf, else by the destructor; not
\* before, not twice, and it is released when the stream is gone), and a
\* caller's buffer is never released.
C9_BufferReleasedOnce ==
  /\ released["ext"] = 0
  /\ released["def"] = (IF owned /\ pc # "destroyed" THEN 0 ELSE 1)

\* C9's case: a stream that read from its source, was given a caller's
\* buffer and was destroyed.
C9_Witness ==
  pc = "destroyed" /\ buf = "ext" /\ fdOff > 0 /\ released["def"] = 1

\* C10: xsgetn(s, n) returns c <= n, the c bytes are the next c bytes of the
\* source in order, and c < n only at the end of the source.
C10_BulkRead ==
  (Done("xsgetn") /\ ret.st = "ok")
    => /\ ret.val <= call.a
       /\ out = FileSlice(call.q0, ret.val)
       /\ Len(out) = ret.val
       /\ ret.val < call.a => call.q0 + ret.val >= FileLen

\* ------------------------------------------------------------- two threads
\* Two threads, each calling skip(fd, n) on an Other-kind stream of its own
\* (a source of FileLen bytes whose writer has closed, nothing buffered).
\* Every ::splice is one step of its thread; the steps interleave freely.

\* a splice_to_null whose dev_null and p are one instance for all threads
TlsShared(t) == "t1"

\* thread_local Fd dev_null; thread_local Pipe p: the instance thread t uses
TlsOf(t) == t

\* ::splice(fd.fd, NULL, p.write, NULL, len, 0) from a source at offset off
ThreadSpliceCounts(len, off) ==
  IF len = 0 \/ off >= FileLen THEN {0} ELSE 1..Min(len, FileLen - off)

\* thread t leaves skip with outcome st
ThreadReturn(t, st) ==
  thr' = [thr EXCEPT ![t].pc = "idle", ![t].st = st, ![t].n = 0, ![t].rd = 0]

\* thread t calls splice_to_null(fd, n): the thread_locals are constructed
\* on the thread's first call, which may throw
ThreadSkip(t, n) ==
  LET i == TlsOf(t) IN
  /\ thr[t].pc = "idle"
  /\ \E dn \in (IF tls[i].dev_null THEN {TRUE} ELSE BOOLEAN) :
       IF ~dn
       THEN ThreadReturn(t, "OpenError") /\ UNCHANGED tls
       ELSE \E po \in (IF tls[i].open THEN {TRUE} ELSE BOOLEAN) :
              /\ tls' = [tls EXCEPT ![i].dev_null = TRUE, ![i].open = po]
              /\ IF ~po THEN ThreadReturn(t, "OpenError")
                 ELSE IF n = 0 THEN ThreadReturn(t, "ok")
                 ELSE thr' = [thr EXCEPT ![t].pc = "splice_to_null",
                                         ![t].n = n, ![t].rd = NoTransfer]
  /\ UNCHANGED streamVars

\* the first ::splice of thread t, from its descriptor into p.write
ThreadSplice1(t) ==
  LET i == TlsOf(t) IN
  /\ thr[t].pc = "splice_to_null"
  /\ \/ \E rd \in ThreadSpliceCounts(thr[t].n, thr[t].off) :
          IF rd > 0
          THEN /\ thr' = [thr EXCEPT ![t].pc = "splice_to_null_2", ![t].rd = rd,
                                     ![t].off = @ + rd]
               /\ tls' = [tls EXCEPT ![i].held = @ \o [k \in 1..rd |-> t],
                                     ![i].users = @ \cup {t}]
          ELSE ThreadReturn(t, "PrematureEndError") /\ UNCHANGED tls
     \/ ThreadReturn(t, "TransferError") /\ UNCHANGED tls
  /\ UNCHANGED streamVars

\* the second ::splice of thread t, from p.read into dev_null; then
\* n -= read; break
ThreadSplice2(t) ==
  LET i == TlsOf(t)
      held == tls[i].held
  IN
  /\ thr[t].pc = "splice_to_null_2"
  /\ \/ \E written \in DrainCounts(Len(held), thr[t].rd) :
          /\ tls' = [tls EXCEPT ![i].held = SubSeq(held, written + 1, Len(held)),
                                ![i].users = @ \cup {t}]
          /\ thr' = [thr EXCEPT ![t].pc = "idle", ![t].st = "ok", ![t].n = 0,
                                ![t].rd = 0, ![t].sunk = @ + written,
                                ![t].drained = @ \cup {held[k] : k \in 1..written}]
     \/ ThreadReturn(t, "TransferError") /\ UNCHANGED tls
  /\ UNCHANGED streamVars

\* the stream variables play no part here: they stay as a new stream on a
\* character device has them
InitTwoThreads ==
  /\ ftype = "CHR"
  /\ type = FdType(StMode(ftype))
  /\ fdOwned = FALSE
  /\ fdOpened = FALSE
  /\ fdClosed = 0
  /\ pc = "idle"
  /\ InitStream

NextThreads == \/ \E t \in Threads, n \in 0..MaxReq : ThreadSkip(t, n)
               \/ \E t \in Threads : ThreadSplice1(t)
               \/ \E t \in Threads : ThreadSplice2(t)

SpecThreads == InitTwoThreads /\ [][NextThreads]_vars

\* C11: a handle made from a path closes the descriptor it opened exactly
\* once: not while the stream is alive, once when the stream is destroyed,
\* or once when fstat fails after the open (and the constructor throws); a
\* handle made from a descriptor never closes it; a handle whose open failed
\* has nothing to close.
C11_ClosedOnce ==
  fdClosed = (IF fdOwned /\ fdOpened /\ pc \in {"destroyed", "failed"}
              THEN 1 ELSE 0)

\* C11's case: a stream opened from a path, read from, and destroyed.
C11_Witness ==
  pc = "destroyed" /\ fdOwned /\ fdOff > 0 /\ fdClosed = 1

\* C12: no call of the stream fails with errno EINTR: an interrupted open,
\* read or splice is issued again (seeks to before the buffered bytes, whose
\* count wraps, are left aside).
C12_EintrRetried ==
  (ret.st # "ok" /\ call.a >= call.b0) => ret.errno # "EINTR"

\* C20: once the handle is constructed, by either constructor, its kind is
\* Regular exactly for a regular file, Fifo exactly for a FIFO and Other for
\* every other file type; so lseek is only ever chosen for a regular file.
C20_ClassificationExact ==
  pc \notin {"new", "open", "fstat", "failed"}
    => /\ type = (CASE ftype = "REG" -> "reg"
                    [] ftype = "FIFO" -> "fifo"
                    [] OTHER -> "other")
       /\ (call.op = "seekoff" /\ call.opt /\ type = "reg") => ftype = "REG"

\* C13: at every point of the stream's life the get area lies in the
\* installed buffer: eback is its start and
\* eback <= gptr <= egptr <= eback + capacity.
C13_WindowInBuffer ==
  pc # "destroyed"
    => /\ eback = Ptr(buf, 0)
       /\ gptr.b = buf /\ egptr.b = buf
       /\ eback.o <= gptr.o /\ gptr.o <= egptr.o /\ egptr.o <= capacity

\* C14: a forward skip of off >= 0 with b bytes buffered: the count handed to
\* skip is never a wrapped negative; for off <= b the call only advances
\* gptr by off (b - off bytes stay buffered, the descriptor is not used, no
\* error); for off > b the get area is emptied.  (A call that fails to open
\* the discard sink is left aside.)
C14_SkipWithinWindow ==
  (call.op = "seekoff" /\ call.opt /\ call.a >= 0 /\ WellClassified
     /\ ~(pc = "idle" /\ ret.st = "OpenError"))
    => /\ SkipCount(call.a, call.b0) <= MaxReq
       /\ call.a <= call.b0
            => /\ pc = "idle" /\ ret.st = "ok"
               /\ Buffered = call.b0 - call.a
               /\ fdOff = call.q0 + call.b0
       /\ call.a > call.b0 => Buffered = 0

\* C15: a seek with a negative offset, like a seek that is not relative or
\* is for the output direction, is left to std::streambuf::seekoff: it
\* returns -1 at once and leaves the get area and the descriptor as they
\* were.
C15_OnlyForwardOptimised ==
  (call.op = "seekoff" /\ (call.a < 0 \/ ~call.opt))
    => /\ ~call.opt
       /\ pc = "idle" /\ ret.st = "ok" /\ ret.val = 0 - 1
       /\ Buffered = call.b0
       /\ NextPos = call.q0

\* C16: underflow issues a read only when the get area is empty; with a
\* non-empty get area it returns the byte at gptr and changes nothing; with
\* an empty one it reads n <= capacity bytes to the start of buf, the get
\* area becomes [buf, buf, buf + n) holding the next n bytes of the source,
\* and it returns EOF exactly when n = 0.
C16_UnderflowRefill ==
  /\ (pc = "read" /\ loc.fn = "underflow") => Buffered = 0
  /\ (Done("underflow") /\ ret.st = "ok")
       => IF call.b0 > 0
          THEN /\ fdOff = call.q0 + call.b0
               /\ Buffered = call.b0
               /\ ret.val \in CellValues(mem, gptr.b, gptr.o)
          ELSE /\ eback = Ptr(buf, 0) /\ gptr = Ptr(buf, 0)
               /\ egptr = Ptr(buf, fdOff - call.q0)
               /\ egptr.o <= capacity
               /\ (ret.val = 0 - 1) <=> (egptr.o = 0)
               /\ \A i \in 1..egptr.o : mem[buf][i] = Content(call.q0 + i - 1)

\* C16's case: the get area was used up past the start of the source and
\* underflow refilled it.
C16_Witness ==
  Done("underflow") /\ ret.st = "ok" /\ call.b0 = 0 /\ call.q0 > 0 /\ ret.val > 0

\* C18: when a forward skip throws, the get area holds the bytes it held
\* when the call started.
C18_FailedSkipKeepsWindow ==
  (Done("seekoff") /\ call.opt /\ call.a >= call.b0 /\ WellClassified
     /\ ret.st # "ok")
    => Buffered = call.b0

\* C19: when a forward skip on an Other descriptor has returned or thrown,
\* the thread's pipe holds no bytes.
C19_PipeEmptyOnReturn ==
  (Done("seekoff") /\ call.opt /\ call.a >= call.b0 /\ type = "other")
    => p.held = 0

\* C17: with two threads skipping on streams of their own, in every
\* interleaving a thread drains only bytes it moved into the pipe itself, no
\* dev_null or pipe instance is used by both threads, and every byte a
\* thread took from its source is in its sink or still in its own pipe, as
\* when the thread runs alone.
C17_PerThread ==
  /\ \A t \in Threads : thr[t].drained \subseteq {t}
  /\ \A i \in Threads : Cardinality(tls[i].users) <= 1
  /\ \A t \in Threads :
       /\ \A k \in 1..Len(tls[t].held) : tls[t].held[k] = t
       /\ thr[t].off = thr[t].sunk + Len(tls[t].held)

\* C17's case: both threads are between their two splices, each with bytes
\* in a pipe, after one of them has completed a skip before.
C17_Witness ==
  /\ \A t \in Threads : thr[t].pc = "splice_to_null_2"
  /\ \E t \in Threads : thr[t].sunk > 0

====
